---- MODULE Spec2Model ----
(***************************************************************************)
(* Flight ranking engine of flight-sniper-agent: the price cleaner         *)
(* (flight_filter.clean_price), the direct-flight extractor                *)
(* (flight_filter.find_direct_flights) and the recommendation /            *)
(* alternatives selection both front ends run on its result                *)
(* (agent.search_flights_tool, the streamlit Search handler).              *)
(*                                                                         *)
(* JSON values are tagged records so that values of different Python       *)
(* types live in one set.  A string is a sequence of one-character tokens; *)
(* the rupee glyph is the token "U+20B9".                                  *)
(***************************************************************************)
EXTENDS Integers, Sequences, FiniteSets, TLC

\* ------------------------------------------------------------------ bounds
\* Most offers in the two groupings of a payload of the general family.
MaxOffers == 2
\* Most offers of a payload of the well-formed family (the ranking cases).
MaxFlights == 4
\* Most top-level values the fallback scan walks over.
MaxExtras == 2
\* Largest value of the form's "Max distinct-airline recommendations" input
\* the model tries (the widget itself allows 1..10).
MaxTopN == 3
\* Most offers of a payload of the link family.
MaxLinkOffers == 2

\* ------------------------------------------------------- program constants
\* agent.py: recommended = diverse_flights[:3]
AgentMaxPicks == 3
\* agent.py: tolerance_pct = 0.05, in percent
AgentTolerancePct == 5
\* agent.py: for f in alt_candidates[:5]
AgentAltShown == 5
\* streamlit_app.py: for f in alts[:10]
FormAltShown == 10
\* Values of the form's tolerance slider (0..20, in percent) the model tries.
\* On these, and prices below 20000, cheapest * (1 + tolerance / 100.0)
\* in IEEE doubles compares with an integer price exactly as the rational
\* product does.
Tolerances == {0, 5, 20}

\* A key that the record does not have.
ABSENT == "<absent>"

\* ------------------------------------------------------------ small helpers
Min(a, b) == IF a <= b THEN a ELSE b

Range(s) == {s[k] : k \in 1..Len(s)}

Take(s, n) == SubSeq(s, 1, Min(n, Len(s)))

\* ---------------------------------------------------------------- strings
Digits == {"0", "1", "2", "3", "4", "5", "6", "7", "8", "9"}

DigitVal(c) ==
    CASE c = "0" -> 0 [] c = "1" -> 1 [] c = "2" -> 2 [] c = "3" -> 3
      [] c = "4" -> 4 [] c = "5" -> 5 [] c = "6" -> 6 [] c = "7" -> 7
      [] c = "8" -> 8 [] c = "9" -> 9

\* str.replace(c, '') for a one-character c
RECURSIVE RemoveChar(_, _)
RemoveChar(s, c) ==
    IF s = <<>> THEN <<>>
    ELSE IF Head(s) = c THEN RemoveChar(Tail(s), c)
    ELSE <<Head(s)>> \o RemoveChar(Tail(s), c)

\* str.replace('INR', ''): non-overlapping occurrences, left to right
RECURSIVE RemoveINR(_)
RemoveINR(s) ==
    IF s = <<>> THEN <<>>
    ELSE IF Len(s) >= 3 /\ s[1] = "I" /\ s[2] = "N" /\ s[3] = "R"
         THEN RemoveINR(SubSeq(s, 4, Len(s)))
    ELSE <<Head(s)>> \o RemoveINR(Tail(s))

\* str.strip(): leading and trailing whitespace
RECURSIVE LStrip(_)
LStrip(s) == IF s # <<>> /\ Head(s) = " " THEN LStrip(Tail(s)) ELSE s

RECURSIVE RStrip(_)
RStrip(s) ==
    IF s # <<>> /\ s[Len(s)] = " " THEN RStrip(SubSeq(s, 1, Len(s) - 1)) ELSE s

Strip(s) == LStrip(RStrip(s))

RECURSIVE DigitsValue(_, _)
DigitsValue(s, acc) ==
    IF s = <<>> THEN acc ELSE DigitsValue(Tail(s), acc * 10 + DigitVal(Head(s)))

\* int(str) on the model's alphabet (no underscore, ASCII digits): an optional
\* sign and at least one digit; anything else is a ValueError.
ParseInt(s) ==
    LET signed == s # <<>> /\ Head(s) \in {"-", "+"}
        body   == IF signed THEN Tail(s) ELSE s
        ok     == body # <<>> /\ \A k \in 1..Len(body) : body[k] \in Digits
    IN  IF ~ok THEN [ok |-> FALSE, v |-> 0]
        ELSE [ok |-> TRUE,
              v  |-> IF signed /\ Head(s) = "-" THEN 0 - DigitsValue(body, 0)
                     ELSE DigitsValue(body, 0)]

\* ----------------------------------------------------------- price values
\* A price as the JSON payload carries it: k is its Python type, n the number
\* (a finite float in tenths), s the characters of a string.
PInt(n)   == [k |-> "int",   n |-> n, s |-> <<>>]
PBool(n)  == [k |-> "bool",  n |-> n, s |-> <<>>]
PFloat(t) == [k |-> "float", n |-> t, s |-> <<>>]
PStr(s)   == [k |-> "str",   n |-> 0, s |-> s]
PNone     == [k |-> "none",  n |-> 0, s |-> <<>>]
PInf      == [k |-> "inf",   n |-> 0, s |-> <<>>]
PNaN      == [k |-> "nan",   n |-> 0, s |-> <<>>]
PList     == [k |-> "list",  n |-> 0, s |-> <<>>]

\* float('inf') and a finite integer amount, as clean_price returns them
Infinity   == [inf |-> TRUE,  v |-> 0]
Amount(n)  == [inf |-> FALSE, v |-> n]

\* int(x) of a finite float given in tenths: truncation toward zero
TruncTenths(t) == IF t >= 0 THEN t \div 10 ELSE 0 - ((0 - t) \div 10)

\* A result of clean_price: err is "" on return, else the exception raised.
Returned(p) == [err |-> "", val |-> p]
Raised(e)   == [err |-> e,  val |-> Infinity]

clean_price(price_input) ==
    IF price_input.k = "none" THEN Returned(Infinity)
    ELSE IF price_input.k \in {"int", "bool"} THEN Returned(Amount(price_input.n))
    ELSE IF price_input.k = "float" THEN Returned(Amount(TruncTenths(price_input.n)))
    ELSE IF price_input.k = "inf" THEN Raised("OverflowError")
    ELSE IF price_input.k = "nan" THEN Raised("ValueError")
    ELSE IF price_input.k = "str"
    THEN LET clean_str == Strip(RemoveINR(RemoveChar(RemoveChar(price_input.s, "U+20B9"), ",")))
             r == ParseInt(clean_str)
         IN  IF r.ok THEN Returned(Amount(r.v)) ELSE Returned(Infinity)
    ELSE Returned(Infinity)

\* x['price_value'] < y['price_value'] and <=, with float('inf') on either side
PriceLt(p, q) == ~p.inf /\ (q.inf \/ p.v < q.v)
PriceLe(p, q) == q.inf \/ (~p.inf /\ p.v <= q.v)

\* ------------------------------------------------------------------ offers
\* One element of a grouping.  rec: the element is a JSON object; layovers and
\* flights: the shape of those two fields; seg: the shape of flights[0] when
\* flights is a non-empty list ("record", "nullairport": a record whose
\* departure_airport is null, "notrecord": a string or a number); airline and
\* flight_number: the fields of flights[0], ABSENT when the key is missing.
\* A JSON value read with .get(): the key is missing ("absent"), null, or a
\* string, held as its sequence of tokens (<<>> is the empty string).
NoValue      == [kind |-> "absent", s |-> <<>>]
NullValue    == [kind |-> "null", s |-> <<>>]
StrValue(s)  == [kind |-> "str", s |-> s]

\* booking_token, google_flights_url: the two link fields of the offer
Offer(lay, fl, sg, a, fn, p) ==
    [rec |-> TRUE, layovers |-> lay, flights |-> fl, seg |-> sg,
     airline |-> a, flight_number |-> fn, price |-> p,
     booking_token |-> NoValue, google_flights_url |-> NoValue]

\* the offer o carrying the link fields url and tok
WithLinks(o, url, tok) ==
    [o EXCEPT !.google_flights_url = url, !.booking_token = tok]

WellFormed(a, fn, p) == Offer(ABSENT, "list", "record", a, fn, p)

\* "₹4,500", "₹4,000", " 4,000 INR", "bad", "4201"
Str4500 == <<"U+20B9", "4", ",", "5", "0", "0">>
Str4000 == <<"U+20B9", "4", ",", "0", "0", "0">>
StrINR  == <<" ", "4", ",", "0", "0", "0", " ", "I", "N", "R">>
StrBad  == <<"b", "a", "d">>
Str4201 == <<"4", "2", "0", "1">>

\* The four offers of the spec's ranking scenario: airlines A, B, A, C with
\* prices "₹4,500", "₹4,000", 5200, "bad".
ScA1 == WellFormed("A", "f1", PStr(Str4500))
ScB  == WellFormed("B", "f2", PStr(Str4000))
ScA2 == WellFormed("A", "f3", PInt(5200))
ScC  == WellFormed("C", ABSENT, PStr(StrBad))

\* Well-formed direct offers of the ranking cases: shared and missing flight
\* numbers, equal prices, prices on both sides of a 5% band over 4000.
GoodOffers ==
    {ScA1, ScB, ScA2, ScC,
     WellFormed("B", ABSENT, PInt(4200)),
     WellFormed("A", "f2", PStr(Str4201))}

\* An element of a grouping that is not a JSON object (a string, a number).
NotRecord ==
    [rec |-> FALSE, layovers |-> ABSENT, flights |-> ABSENT, seg |-> "record",
     airline |-> ABSENT, flight_number |-> ABSENT, price |-> PNone,
     booking_token |-> NoValue, google_flights_url |-> NoValue]

\* The malformed offers: no 'flights' key, flights null, flights [], flights a
\* number, flights[0] not an object, flights[0].departure_airport null.
Malformed(fl, sg) == Offer(ABSENT, fl, sg, "A", "f9", PInt(4100))

MalformedOffers ==
    {Malformed(ABSENT, "record"), Malformed("null", "record"),
     Malformed("empty", "record"), Malformed("number", "record"),
     Malformed("list", "notrecord"), Malformed("list", "nullairport"),
     NotRecord}

\* Offers of the general family: well-formed ones (two of equal price), every
\* shape of the layover indicator, every malformation, every price type.
Offers ==
    {ScA1, WellFormed("B", "f2", PInt(4500)), ScC,
     Offer("nonempty", "list", "record", "A", "f4", PInt(3000)),
     Offer("nonempty", "empty", "record", "A", "f4", PInt(3000)),
     Offer("empty", "list", "record", "B", "f5", PStr(StrINR)),
     Offer("null", "list", "record", "C", "f6", PFloat(45007)),
     WellFormed("A", "f7", PInf), WellFormed("A", "f7", PNaN),
     WellFormed("C", "f8", PBool(1)), WellFormed("C", "f8", PNone),
     WellFormed("C", "f8", PList)}
    \cup MalformedOffers

\* The URLs and the token of the link cases, one token each.
OfferUrl  == <<"https://flights.example/offer/1">>
SearchUrl == <<"https://flights.example/search?q=1">>
Token     == <<"tok1">>

\* Offers of the link family: one well-formed direct offer with the offer URL
\* and the booking token each missing, empty or set.
LinkOffers ==
    {WithLinks(WellFormed("A", "f1", PInt(4000)), url, tok) :
        url \in {NoValue, StrValue(<<>>), StrValue(OfferUrl)},
        tok \in {NoValue, StrValue(<<>>), StrValue(Token)}}

\* search_metadata.google_flights_url: missing (with or without the
\* search_metadata object), null, empty or set.
SearchUrls == {NoValue, NullValue, StrValue(<<>>), StrValue(SearchUrl)}

\* ---------------------------------------------------------------- payloads
\* The parsed JSON document: the two well-known groupings (hasBest, hasOther:
\* the key is present) and the other top-level values, in document order; a
\* top-level value is a list of elements or something that is no list.
Payload(hb, b, ho, o, ex) ==
    [hasBest |-> hb, best |-> b, hasOther |-> ho, other |-> o, extras |-> ex,
     search_url |-> NoValue]

\* the document d with search_metadata.google_flights_url = u
WithSearchUrl(d, u) == [d EXCEPT !.search_url = u]

ListValue(items) == [isList |-> TRUE, items |-> items]
NonListValue     == [isList |-> FALSE, items |-> <<>>]

\* Top-level values the fallback scan meets: a non-list, an empty list, lists
\* whose first element is not an object, has no 'flights' key, has a 'flights'
\* key that is no list, or is an offer.
ExtraValues ==
    {NonListValue, ListValue(<<>>),
     ListValue(<<NotRecord>>),
     ListValue(<<Malformed(ABSENT, "record"), ScB>>),
     ListValue(<<Malformed("number", "record"), ScB>>),
     ListValue(<<ScA1>>),
     ListValue(<<ScB, NotRecord>>)}

\* Ways to split the offers s over the two groupings: t[1] offers go to the
\* preferred one; t[2], t[3]: the grouping's key is present (it is when the
\* grouping has offers).
Splits(s) ==
    {t \in (0..Len(s)) \X BOOLEAN \X BOOLEAN :
        (t[1] > 0 => t[2]) /\ (t[1] < Len(s) => t[3])}

\* ------------------------------------------------------------------- state
VARIABLES
    pc,             \* where the search is: "start", "loop", "returned", "raised",
                    \* "picked", "backfilled", "done"
    data,           \* find_direct_flights: the parsed JSON document
    sources,        \* find_direct_flights: the candidate offers
    scanned,        \* the fallback scan of the top-level values ran (line 47 taken)
    i,              \* position in sources of the offer the for loop handles next
    all_flights,    \* find_direct_flights: the flights built so far
    sorted_flights, \* the list find_direct_flights returned (cleaned_flights, flights)
    err,            \* the exception that left find_direct_flights, "" if none
    raised_in,      \* the function that raised it
    front,          \* the front end that ranks: "agent", "form", "" before it does
    max_picks,      \* 3 in the agent, top_n in the form
    tolerance,      \* the tolerance in percent
    recommended,    \* the recommended list
    alt_candidates, \* the near-cheapest alternatives (alt_candidates, alts)
    shown           \* the alternatives the front end writes out

VARIABLES
    iata_pc,        \* convert_to_iata: "off", "called", "returned"
    loc,            \* convert_to_iata: the text the user typed
    iata            \* what convert_to_iata returned, and by which return statement

search_vars == <<pc, data, sources, scanned, i, all_flights, sorted_flights, err, raised_in,
          front, max_picks, tolerance, recommended, alt_candidates, shown>>

VARIABLES
    search_pc,      \* per search: "idle", "fetched", "opened", "written", "ranked",
                    \* "failed"
    raw,            \* per search: the payload fetch_raw_flights returned (raw, raw_data)
    temp_file,      \* the file temp_search.json of the working directory
    loaded          \* per search: the document find_direct_flights parsed

VARIABLES
    chat_pc,        \* chat_with_agent: "off", "input" (line 160), "think" (169),
                    \* "fallback" (176), "retry" (209), "tools" (227), "final" (237),
                    \* "final_retry" (252), "quit", "crashed"
    current_model,  \* the global current_model
    llm_with_tools, \* the model the global llm_with_tools is bound to
    fb_i,           \* position in FALLBACK_MODELS of the fallback the for loop tries next
    s_err,          \* s, the text of the error of the first invocation, by its kind
    tool_calls,     \* ai_msg.tool_calls is non-empty
    printed,        \* the "Agent:" lines printed in this turn, by what they show
    model_ok,       \* the turn's model call returned an ai_msg
    final_ok        \* the invocation after the tool results returned a final_response

iata_vars == <<iata_pc, loc, iata>>

chat_vars == <<chat_pc, current_model, llm_with_tools, fb_i, s_err, tool_calls,
               printed, model_ok, final_ok>>

file_vars == <<search_pc, raw, temp_file, loaded>>

\* the variables of the other parts of the program, which a search leaves alone
side_vars == <<iata_vars, file_vars, chat_vars>>

vars == <<search_vars, side_vars>>

\* no document is being searched
SearchIdle ==
    /\ pc = "off"
    /\ data = Payload(FALSE, <<>>, FALSE, <<>>, <<>>)
    /\ sources = <<>>
    /\ scanned = FALSE
    /\ i = 1
    /\ all_flights = <<>>
    /\ sorted_flights = <<>>
    /\ err = ""
    /\ raised_in = ""
    /\ front = ""
    /\ max_picks = 0
    /\ tolerance = 0
    /\ recommended = <<>>
    /\ alt_candidates = <<>>
    /\ shown = <<>>

\* The searches that share the working directory: two sessions of the form, or
\* a session of the form and the chat agent's tool.
Searches == {"s1", "s2"}

\* No document: fetch_raw_flights returned None, nothing was parsed.
NoDoc == [state |-> "none", doc |-> Payload(FALSE, <<>>, FALSE, <<>>, <<>>)]
Doc(d) == [state |-> "doc", doc |-> d]

\* temp_search.json: not there, truncated by open(..., "w") and not yet
\* written, or holding a document.
FileMissing   == [state |-> "missing", doc |-> Payload(FALSE, <<>>, FALSE, <<>>, <<>>)]
FileTruncated == [state |-> "truncated", doc |-> Payload(FALSE, <<>>, FALSE, <<>>, <<>>)]

\* no search is under way and the working directory has no temporary file
FileIdle ==
    /\ search_pc = [s \in Searches |-> "idle"]
    /\ raw = [s \in Searches |-> NoDoc]
    /\ loaded = [s \in Searches |-> NoDoc]
    /\ temp_file = FileMissing

\* GOOGLE_MODEL and GOOGLE_FALLBACK_MODELS, by their defaults
PrimaryModel    == "models/gemini-2.5-pro"
FALLBACK_MODELS == <<"models/gemini-2.5-flash", "models/gemini-flash-lite-latest">>

\* lines 141-143, and the locals of a turn before the first one
ChatStart ==
    /\ current_model = PrimaryModel
    /\ llm_with_tools = PrimaryModel
    /\ fb_i = 1
    /\ s_err = ""
    /\ tool_calls = FALSE
    /\ printed = <<>>
    /\ model_ok = FALSE
    /\ final_ok = FALSE

\* the chat loop is not running
ChatIdle == chat_pc = "off" /\ ChatStart

\* no city name is being resolved
IataIdle == iata_pc = "off" /\ loc = <<>> /\ iata = [val |-> NullValue, via |-> ""]

rank_vars == <<front, max_picks, tolerance, recommended, alt_candidates, shown>>

\* General family: any offers, split over the two groupings in every way.
GroupingPayload ==
    \E k \in 0..MaxOffers : \E s \in [1..k -> Offers] : \E t \in Splits(s) :
        data = Payload(t[2], SubSeq(s, 1, t[1]), t[3], SubSeq(s, t[1] + 1, Len(s)), <<>>)

\* Fallback family: each grouping absent, empty or holding one offer, and any
\* other top-level values.
FallbackPayload ==
    \E hb, ho \in BOOLEAN : \E b, o \in {<<>>, <<ScA2>>} :
        \E k \in 0..MaxExtras : \E ex \in [1..k -> ExtraValues] :
            /\ (hb \/ b = <<>>) /\ (ho \/ o = <<>>)
            /\ data = Payload(hb, b, ho, o, ex)

\* Well-formed family: one grouping of well-formed direct offers.
RankingPayload ==
    \E k \in 0..MaxFlights : \E s \in [1..k -> GoodOffers] :
        data = Payload(TRUE, s, FALSE, <<>>, <<>>)

\* Link family: one grouping of link offers under every search-level URL.
LinkPayload ==
    \E k \in 0..MaxLinkOffers : \E s \in [1..k -> LinkOffers] : \E u \in SearchUrls :
        data = WithSearchUrl(Payload(TRUE, s, FALSE, <<>>, <<>>), u)

Init ==
    /\ GroupingPayload \/ FallbackPayload \/ RankingPayload \/ LinkPayload
    /\ pc = "start"
    /\ sources = <<>>
    /\ scanned = FALSE
    /\ i = 1
    /\ all_flights = <<>>
    /\ sorted_flights = <<>>
    /\ err = ""
    /\ raised_in = ""
    /\ front = ""
    /\ max_picks = 0
    /\ tolerance = 0
    /\ recommended = <<>>
    /\ alt_candidates = <<>>
    /\ shown = <<>>
    /\ IataIdle
    /\ FileIdle
    /\ ChatIdle

\* --------------------------------------------------- find_direct_flights
\* v[0] of a top-level list looks like a flight entry: a dict with a 'flights' key
LooksLikeOffer(first) == first.rec /\ first.flights # ABSENT

\* for v in data.values(): the first non-empty list whose first element looks
\* like a flight entry, or nothing.  The two groupings are among the values,
\* but the scan runs only when both are empty, and an empty list is passed over.
RECURSIVE ScanValues(_)
ScanValues(values) ==
    IF values = <<>> THEN <<>>
    ELSE LET v == Head(values)
         IN  IF v.isList /\ v.items # <<>> /\ LooksLikeOffer(v.items[1])
             THEN v.items
             ELSE ScanValues(Tail(values))

\* sources after lines 39-43
FromGroupings(d) ==
    (IF d.hasBest THEN d.best ELSE <<>>) \o (IF d.hasOther THEN d.other ELSE <<>>)

\* lines 35-57: gather the candidate offers
Gather ==
    /\ pc = "start"
    /\ LET grouped == FromGroupings(data)
       IN  /\ scanned' = (grouped = <<>>)
           /\ sources' = IF grouped = <<>> THEN ScanValues(data.extras) ELSE grouped
    /\ pc' = "loop"
    /\ UNCHANGED <<data, i, all_flights, sorted_flights, err, raised_in>>
    /\ UNCHANGED rank_vars
    /\ UNCHANGED side_vars

\* Variant: the layover test asks for the key ('layovers' in flight), not for a
\* non-empty value.
HasLayoversKeyPresent(flight) == flight.layovers # ABSENT

\* if has_layovers: the indicator is truthy
HasLayovers(flight) == flight.layovers = "nonempty"

\* What lines 65-102 do with one offer: "append", "skip" (the layover test or a
\* caught KeyError / IndexError), or the exception that leaves the function.
Outcome(flight) ==
    IF ~flight.rec THEN [do |-> "raise", err |-> "AttributeError", by |-> "find_direct_flights"]
    ELSE IF HasLayovers(flight) THEN [do |-> "skip", err |-> "", by |-> ""]
    ELSE IF flight.flights = ABSENT THEN [do |-> "skip", err |-> "KeyError", by |-> ""]
    ELSE IF flight.flights = "empty" THEN [do |-> "skip", err |-> "IndexError", by |-> ""]
    ELSE IF flight.flights \in {"null", "number"}
         THEN [do |-> "raise", err |-> "TypeError", by |-> "find_direct_flights"]
    ELSE IF flight.seg \in {"notrecord", "nullairport"}
         THEN [do |-> "raise", err |-> "AttributeError", by |-> "find_direct_flights"]
    ELSE IF clean_price(flight.price).err # ""
         THEN [do |-> "raise", err |-> clean_price(flight.price).err, by |-> "clean_price"]
    ELSE [do |-> "append", err |-> "", by |-> ""]

\* a value as an if / elif condition: neither missing, nor None, nor ""
Truthy(v) == v.kind = "str" /\ v.s # <<>>

\* Variant: the synthesized link comes before the offer's own URL.
LinkValueTokenFirst(per_flight_url, booking_token, search_url) ==
    IF Truthy(booking_token) /\ Truthy(search_url)
    THEN search_url.s \o <<"&booking_token=">> \o booking_token.s
    ELSE IF Truthy(per_flight_url) THEN per_flight_url.s
    ELSE IF Truthy(search_url) THEN search_url.s
    ELSE <<"No link">>

\* lines 79-86: link_value
LinkValue(per_flight_url, booking_token, search_url) ==
    IF Truthy(per_flight_url) THEN per_flight_url.s
    ELSE IF Truthy(booking_token) /\ Truthy(search_url)
         THEN search_url.s \o <<"&booking_token=">> \o booking_token.s
    ELSE IF Truthy(search_url) THEN search_url.s
    ELSE <<"No link">>

\* flight_info of lines 88-97; src is the position of the offer in sources,
\* kept to tell apart two flights with the same fields (no code reads it).
FlightInfo(flight, k) ==
    [airline       |-> IF flight.airline = ABSENT THEN "Unknown" ELSE flight.airline,
     flight_number |-> IF flight.flight_number = ABSENT THEN "N/A" ELSE flight.flight_number,
     price_raw     |-> flight.price,
     price_value   |-> clean_price(flight.price).val,
     link          |-> LinkValue(flight.google_flights_url, flight.booking_token,
                                 data.search_url),
     src           |-> k]

\* lines 59-102: one turn of the for loop
ProcessOffer ==
    /\ pc = "loop"
    /\ i <= Len(sources)
    /\ LET flight == sources[i]
           out == Outcome(flight)
       IN  \/ /\ out.do = "raise"
              /\ pc' = "raised"
              /\ err' = out.err
              /\ raised_in' = out.by
              /\ UNCHANGED <<i, all_flights>>
           \/ /\ out.do = "skip"
              /\ i' = i + 1
              /\ UNCHANGED <<pc, err, raised_in, all_flights>>
           \/ /\ out.do = "append"
              /\ all_flights' = Append(all_flights, FlightInfo(flight, i))
              /\ i' = i + 1
              /\ UNCHANGED <<pc, err, raised_in>>
    /\ UNCHANGED <<data, sources, scanned, sorted_flights>>
    /\ UNCHANGED rank_vars
    /\ UNCHANGED side_vars

\* Variant: an unstable insertion, before the elements of equal price.
RECURSIVE InsertBeforeEqual(_, _)
InsertBeforeEqual(s, x) ==
    IF s = <<>> THEN <<x>>
    ELSE IF PriceLe(x.price_value, Head(s).price_value) THEN <<x>> \o s
    ELSE <<Head(s)>> \o InsertBeforeEqual(Tail(s), x)

\* Where sorted() puts x in an already sorted list: after every element that
\* is not greater (the sort is stable and compares with < only).
RECURSIVE InsertByPrice(_, _)
InsertByPrice(s, x) ==
    IF s = <<>> THEN <<x>>
    ELSE IF PriceLt(x.price_value, Head(s).price_value) THEN <<x>> \o s
    ELSE <<Head(s)>> \o InsertByPrice(Tail(s), x)

\* sorted(flights, key=lambda x: x['price_value'])
RECURSIVE SortByPrice(_)
SortByPrice(s) ==
    IF s = <<>> THEN <<>>
    ELSE InsertByPrice(SortByPrice(SubSeq(s, 1, Len(s) - 1)), s[Len(s)])

\* lines 104-107: sort and return
SortAndReturn ==
    /\ pc = "loop"
    /\ i > Len(sources)
    /\ sorted_flights' = SortByPrice(all_flights)
    /\ pc' = "returned"
    /\ UNCHANGED <<data, sources, scanned, i, all_flights, err, raised_in>>
    /\ UNCHANGED rank_vars
    /\ UNCHANGED side_vars

\* ---------------------------------------------- recommendation (both front ends)
\* Variant: the dict entry of an airline is overwritten by each later flight
\* (the "not in unique_airlines" test left out).
LastPerAirline(flights) ==
    LET first(k) == \A j \in 1..(k - 1) : flights[j].airline # flights[k].airline
        last(k) == CHOOSE j \in k..Len(flights) :
                      /\ flights[j].airline = flights[k].airline
                      /\ \A m \in (j + 1)..Len(flights) : flights[m].airline # flights[k].airline
        RECURSIVE Pick(_)
        Pick(k) ==
            IF k > Len(flights) THEN <<>>
            ELSE IF first(k) THEN <<flights[last(k)]>> \o Pick(k + 1)
            ELSE Pick(k + 1)
    IN  Pick(1)

\* unique_airlines.values(): the first flight of each airline, in list order
UniqueAirlines(flights) ==
    LET first(k) == \A j \in 1..(k - 1) : flights[j].airline # flights[k].airline
        idx == {k \in 1..Len(flights) : first(k)}
        RECURSIVE Pick(_)
        Pick(k) ==
            IF k > Len(flights) THEN <<>>
            ELSE IF k \in idx THEN <<flights[k]>> \o Pick(k + 1)
            ELSE Pick(k + 1)
    IN  Pick(1)

\* diverse_flights = sorted(list(unique_airlines.values()), key=price_value)
DiverseFlights(flights) == SortByPrice(UniqueAirlines(flights))

FlightNumbers(s) == {s[k].flight_number : k \in 1..Len(s)}

\* The walk of lines 104-110 from position k: append every flight whose number
\* is not yet seen, until the list has n entries or the flights run out.
RECURSIVE BackfillWalk(_, _, _, _, _)
BackfillWalk(rec, seen, flights, k, n) ==
    IF k > Len(flights) THEN rec
    ELSE IF flights[k].flight_number \in seen THEN BackfillWalk(rec, seen, flights, k + 1, n)
    ELSE LET rec2 == Append(rec, flights[k])
         IN  IF Len(rec2) >= n THEN rec2
             ELSE BackfillWalk(rec2, seen \cup {flights[k].flight_number}, flights, k + 1, n)

\* Variant: the walk breaks after the first flight it appends.
BackfilledOnce(rec, flights, n) ==
    IF Len(rec) < n THEN BackfillWalk(rec, FlightNumbers(rec), flights, 1, Len(rec) + 1) ELSE rec

\* lines 101-110: fill up to n when the airlines were fewer
Backfilled(rec, flights, n) ==
    IF Len(rec) < n THEN BackfillWalk(rec, FlightNumbers(rec), flights, 1, n) ELSE rec

\* Variant: a strict comparison with the threshold.
WithinToleranceStrict(price, cheapest, tol) ==
    IF cheapest.inf THEN ~price.inf
    ELSE ~price.inf /\ price.v * 100 < cheapest.v * (100 + tol)

\* f['price_value'] <= cheapest * (1 + tol / 100), tol in percent
WithinTolerance(price, cheapest, tol) ==
    IF cheapest.inf THEN TRUE
    ELSE ~price.inf /\ price.v * 100 <= cheapest.v * (100 + tol)

\* Variant: the comprehension without the test on the recommended flight numbers.
AltCandidatesNoExclusion(flights, rec, tol) ==
    LET cheapest_price == flights[1].price_value
        keep(f) == WithinTolerance(f.price_value, cheapest_price, tol)
    IN  SelectSeq(flights, keep)

\* line 119 / line 150: the list comprehension of the alternatives
AltCandidates(flights, rec, tol) ==
    LET cheapest_price == flights[1].price_value
        keep(f) == /\ WithinTolerance(f.price_value, cheapest_price, tol)
                   /\ f.flight_number \notin FlightNumbers(rec)
    IN  SelectSeq(flights, keep)

\* The front end has a payload only if fetch_raw_flights found one of the two
\* groupings in it; find_direct_flights run on a saved file has no such test.
Fetched(d) == d.hasBest \/ d.hasOther

\* agent.py 87-99, streamlit_app.py 120-127: the cheapest flight per airline,
\* cut to max_picks (3 in the agent, the form's top_n)
PickDiverse ==
    /\ pc = "returned"
    /\ Fetched(data)
    /\ sorted_flights # <<>>
    /\ \E fe \in {"agent", "form"} :
         \E n \in 1..MaxTopN :
            /\ fe = "agent" => n = 1
            /\ front' = fe
            /\ max_picks' = IF fe = "agent" THEN AgentMaxPicks ELSE n
    /\ recommended' = Take(DiverseFlights(sorted_flights), max_picks')
    /\ pc' = "picked"
    /\ UNCHANGED <<data, sources, scanned, i, all_flights, sorted_flights, err, raised_in>>
    /\ UNCHANGED <<tolerance, alt_candidates, shown>>
    /\ UNCHANGED side_vars

\* agent.py 101-110, streamlit_app.py 129-137
Backfill ==
    /\ pc = "picked"
    /\ recommended' = Backfilled(recommended, sorted_flights, max_picks)
    /\ pc' = "backfilled"
    /\ UNCHANGED <<data, sources, scanned, i, all_flights, sorted_flights, err, raised_in>>
    /\ UNCHANGED <<front, max_picks, tolerance, alt_candidates, shown>>
    /\ UNCHANGED side_vars

\* agent.py 116-123, streamlit_app.py 147-158
Alternatives ==
    /\ pc = "backfilled"
    /\ \E tol \in Tolerances :
         /\ front = "agent" => tol = AgentTolerancePct
         /\ tolerance' = tol
    /\ alt_candidates' = AltCandidates(sorted_flights, recommended, tolerance')
    /\ shown' = Take(alt_candidates', IF front = "agent" THEN AgentAltShown ELSE FormAltShown)
    /\ pc' = "done"
    /\ UNCHANGED <<data, sources, scanned, i, all_flights, sorted_flights, err, raised_in>>
    /\ UNCHANGED <<front, max_picks, recommended>>
    /\ UNCHANGED side_vars

\* No direct flight (agent.py 79-80, streamlit_app.py 117-118), or the run of
\* flight_filter.py on a saved file (lines 110-122): nothing is ranked.
NothingToRank ==
    /\ pc = "returned"
    /\ sorted_flights = <<>> \/ ~Fetched(data)
    /\ pc' = "done"
    /\ UNCHANGED <<data, sources, scanned, i, all_flights, sorted_flights, err, raised_in>>
    /\ UNCHANGED rank_vars
    /\ UNCHANGED side_vars

Next ==
    \/ Gather
    \/ ProcessOffer
    \/ SortAndReturn
    \/ PickDiverse
    \/ Backfill
    \/ Alternatives
    \/ NothingToRank

Spec == Init /\ [][Next]_vars

\* ================================================================== claims
\* find_direct_flights has returned its list
HasReturned == pc \in {"returned", "picked", "backfilled", "done"}

\* the front end has built the final recommended list
HasRecommended == pc \in {"backfilled", "done"}

SamePrice(p, q) == (p.inf /\ q.inf) \/ (~p.inf /\ ~q.inf /\ p.v = q.v)

\* The offer is a record without a non-empty layover indicator and with at
\* least one route segment.
DirectWithSegment(o) == o.rec /\ o.layovers # "nonempty" /\ o.flights = "list"

\* C1: clean_price is total: whatever the price of an offer is (None, int,
\* float including the infinite and NaN floats, bool, string, other), the call
\* returns and never raises.
C1_CleanPriceNeverRaises == ~(pc = "raised" /\ raised_in = "clean_price")

\* C2: whenever find_direct_flights returns, its list holds exactly one flight
\* per offer that has no non-empty layover indicator and at least one route
\* segment, built from that offer, and no flight for any other offer; no offer
\* with a non-empty layover indicator is in it.
C2_ExactlyTheDirectOffers ==
    HasReturned =>
        LET kept == {k \in 1..Len(sources) : DirectWithSegment(sources[k])}
        IN  /\ {sorted_flights[n].src : n \in 1..Len(sorted_flights)} = kept
            /\ Len(sorted_flights) = Cardinality(kept)
            /\ \A n \in 1..Len(sorted_flights) :
                  LET f == sorted_flights[n]
                      o == sources[f.src]
                  IN  /\ o.layovers # "nonempty"
                      /\ f.price_raw = o.price
                      /\ f.airline = (IF o.airline = ABSENT THEN "Unknown" ELSE o.airline)
                      /\ f.flight_number =
                            (IF o.flight_number = ABSENT THEN "N/A" ELSE o.flight_number)

\* C2 witness: a returned list that kept a direct offer (one with an empty
\* layover list among them) and dropped an offer with layovers and an offer
\* without segments.
C2_Witness ==
    /\ pc = "returned"
    /\ Len(sorted_flights) = 1
    /\ sources[sorted_flights[1].src].layovers = "empty"
    /\ \E k \in 1..Len(sources) :
          sources[k].layovers = "nonempty" /\ sources[k].flights = "list"

\* C3: a malformed offer is skipped on its own: with prices that clean_price
\* accepts, find_direct_flights does not raise, and the list it returns has
\* every well-formed direct offer of the batch.
C3_MalformedOfferSkipped ==
    (\A k \in 1..Len(sources) : sources[k].price.k \notin {"inf", "nan"}) =>
        /\ pc # "raised"
        /\ HasReturned =>
              \A k \in 1..Len(sources) :
                  (DirectWithSegment(sources[k]) /\ sources[k].seg = "record") =>
                      \E n \in 1..Len(sorted_flights) : sorted_flights[n].src = k

\* C4: the returned list is sorted non-decreasing by price_value; flights of
\* equal price_value keep the order in which their offers were met (the
\* preferred grouping before the other one, list order within a grouping);
\* a flight with an unparseable price comes after every flight with a finite one.
C4_SortedStable ==
    HasReturned =>
        /\ \A a, b \in 1..Len(sorted_flights) :
              a < b =>
                  LET x == sorted_flights[a]
                      y == sorted_flights[b]
                  IN  /\ y.price_value.inf \/ (~x.price_value.inf /\ x.price_value.v <= y.price_value.v)
                      /\ x.price_value.inf => y.price_value.inf
                      /\ SamePrice(x.price_value, y.price_value) => x.src < y.src
        /\ ~scanned =>
              /\ Len(sources) = (IF data.hasBest THEN Len(data.best) ELSE 0)
                                  + (IF data.hasOther THEN Len(data.other) ELSE 0)
              /\ \A k \in 1..Len(sources) :
                    sources[k] = IF data.hasBest /\ k <= Len(data.best) THEN data.best[k]
                                 ELSE data.other[k - (IF data.hasBest THEN Len(data.best) ELSE 0)]

\* C4 witness: a returned list of two flights of equal price and different
\* flight numbers, the first from the preferred grouping and the second from
\* the other grouping.
C4_Witness ==
    /\ pc = "returned"
    /\ data.hasBest /\ data.hasOther /\ Len(data.best) = 1 /\ Len(data.other) = 1
    /\ Len(sorted_flights) = 2
    /\ SamePrice(sorted_flights[1].price_value, sorted_flights[2].price_value)
    /\ sorted_flights[1].flight_number # sorted_flights[2].flight_number
    /\ sources[sorted_flights[1].src] = data.best[1]

Airlines(s) == {s[k].airline : k \in 1..Len(s)}

\* C5: the recommended list never holds two entries with the same flight
\* number, the "N/A" of a missing flight number included, wherever the
\* entries come from.
C5_NoDuplicateFlightNumber ==
    HasRecommended =>
        \A a, b \in 1..Len(recommended) :
            a # b => recommended[a].flight_number # recommended[b].flight_number

\* C6 as claimed: with at least max_picks flights and fewer than max_picks
\* distinct airlines, the recommended list has exactly max_picks entries after
\* the backfill.
C6_AsClaimed ==
    (HasRecommended /\ Len(sorted_flights) >= max_picks
        /\ Cardinality(Airlines(sorted_flights)) < max_picks)
    => Len(recommended) = max_picks

\* C6 as amended: with fewer than max_picks distinct airlines and at least
\* max_picks distinct flight numbers ("N/A" counting as one), the recommended
\* list has exactly max_picks entries after the backfill; in general it has
\* min(max_picks, airlines + flight numbers that no per-airline pick carries)
\* entries.
C6_BackfillCount ==
    HasRecommended =>
        LET a     == Cardinality(Airlines(sorted_flights))
            picks == SubSeq(recommended, 1, Min(a, max_picks))
            fresh == FlightNumbers(sorted_flights) \ FlightNumbers(picks)
        IN  /\ (a < max_picks /\ Cardinality(FlightNumbers(sorted_flights)) >= max_picks)
                  => Len(recommended) = max_picks
            /\ Len(recommended) = Min(max_picks, a + Cardinality(fresh))

\* C6 witness: fewer airlines than max_picks, flights that share a flight
\* number, enough distinct flight numbers, and a backfill that filled the list.
C6_Witness ==
    /\ pc = "backfilled"
    /\ Cardinality(Airlines(sorted_flights)) < max_picks
    /\ Cardinality(FlightNumbers(sorted_flights)) >= max_picks
    /\ Cardinality(FlightNumbers(sorted_flights)) < Len(sorted_flights)
    /\ Len(recommended) = max_picks
    /\ Len(recommended) > Cardinality(Airlines(sorted_flights))

\* C7: before any backfill, recommended is the cheapest flight of each
\* distinct airline, in ascending price order, cut to the first max_picks of
\* them; its first entry is the globally cheapest flight; and the offers
\* "₹4,500", "₹4,000", 5200, "bad" of airlines A, B, A, C with max_picks = 3
\* give exactly B(4000), A(4500), C(+infinity).
C7_CheapestPerAirline ==
    pc = "picked" =>
        /\ Len(recommended) = Min(max_picks, Cardinality(Airlines(sorted_flights)))
        /\ \A a \in 1..Len(recommended) :
              LET r == recommended[a]
              IN  /\ \E n \in 1..Len(sorted_flights) :
                        /\ sorted_flights[n] = r
                        /\ \A m \in 1..(n - 1) : sorted_flights[m].airline # r.airline
                  /\ \A n \in 1..Len(sorted_flights) :
                        LET f == sorted_flights[n]
                        IN  /\ f.airline = r.airline => PriceLe(r.price_value, f.price_value)
                            /\ f.airline \notin Airlines(recommended)
                                  => PriceLe(r.price_value, f.price_value)
                  /\ \A b \in (a + 1)..Len(recommended) :
                        /\ recommended[b].airline # r.airline
                        /\ PriceLe(r.price_value, recommended[b].price_value)
        /\ recommended[1] = sorted_flights[1]
        /\ \A n \in 1..Len(sorted_flights) :
              PriceLe(recommended[1].price_value, sorted_flights[n].price_value)
        /\ (sources = <<ScA1, ScB, ScA2, ScC>> /\ max_picks = 3) =>
              /\ Len(recommended) = 3
              /\ recommended[1].airline = "B" /\ recommended[1].price_value = Amount(4000)
              /\ recommended[2].airline = "A" /\ recommended[2].price_value = Amount(4500)
              /\ recommended[3].airline = "C" /\ recommended[3].price_value = Infinity

\* C7 witness: the scenario's four offers, picked with max_picks = 3.
C7_Witness ==
    /\ pc = "picked"
    /\ sources = <<ScA1, ScB, ScA2, ScC>>
    /\ max_picks = 3
    /\ Len(recommended) = 3

\* The minimum price_value over all flights of a non-empty list.
CheapestOf(flights) ==
    CHOOSE p \in {flights[k].price_value : k \in 1..Len(flights)} :
        \A k \in 1..Len(flights) : PriceLe(p, flights[k].price_value)

C9_AlternativesDisjoint ==
    (pc = "done" /\ front # "") =>
        \A a \in 1..Len(recommended) :
            \A b \in 1..Len(alt_candidates) :
                recommended[a].flight_number # alt_candidates[b].flight_number

\* C9 witness: there are alternatives, and a flight within the tolerance that
\* is not itself recommended was left out because a recommended flight has
\* its flight number.
C9_Witness ==
    /\ pc = "done" /\ front # ""
    /\ alt_candidates # <<>>
    /\ \E n \in 1..Len(sorted_flights) :
          LET f == sorted_flights[n]
          IN  /\ f \notin Range(recommended)
              /\ f.flight_number \in FlightNumbers(recommended)
              /\ WithinTolerance(f.price_value, sorted_flights[1].price_value, tolerance)

\* C10: whenever at least one of the two groupings is present, the candidate
\* offers are those of the groupings (preferred, then other) and nothing else:
\* the fallback scan of the top-level values runs only if neither grouping is
\* present, so it adds no candidate to a payload that has one.
C10_FallbackOnlyWithoutGroupings ==
    (pc # "start" /\ (data.hasBest \/ data.hasOther)) =>
        sources = (IF data.hasBest THEN data.best ELSE <<>>)
                    \o (IF data.hasOther THEN data.other ELSE <<>>)

\* The elements of a top-level list are all records with a list-typed
\* segments field.
AllOfferRecords(v) ==
    /\ v.isList /\ v.items # <<>>
    /\ \A k \in 1..Len(v.items) :
          v.items[k].rec /\ v.items[k].flights \in {"empty", "list"}

\* C10, the scan itself: when it runs it takes the first top-level list whose
\* elements are records with a list-typed segments field, and nothing else.
\* (The code tests the first element only, and only for the presence of the
\* 'flights' key.)
C10_ScanTakesOfferLists ==
    (pc # "start" /\ scanned) =>
        LET hits == {k \in 1..Len(data.extras) : AllOfferRecords(data.extras[k])}
        IN  IF hits = {} THEN sources = <<>>
            ELSE sources = data.extras[CHOOSE k \in hits : \A j \in hits : k <= j].items

\* ---------------------------------------------------------------- C11
\* a value is present: it is a string and not the empty one
Present(v) == v.kind = "str" /\ v.s # <<>>

\* the link is the search-level URL followed by a booking token parameter
Synthesized(link) ==
    \E k \in 1..Len(link) : link[k] = "&booking_token="

\* C11: the link of each returned flight is the offer's own URL when that is
\* present; otherwise, when the booking token and the search-level URL are both
\* present, the search-level URL followed by "&booking_token=" and the token;
\* otherwise the bare search-level URL when present; otherwise "No link".  No
\* flight of a document without a search-level URL has a synthesized link.
C11_LinkPriority ==
    HasReturned =>
        \A k \in 1..Len(sorted_flights) :
            LET f   == sorted_flights[k]
                o   == sources[f.src]
                url == o.google_flights_url
                tok == o.booking_token
                su  == data.search_url
            IN  /\ Present(url) => f.link = url.s
                /\ (~Present(url) /\ Present(tok) /\ Present(su))
                      => f.link = su.s \o <<"&booking_token=">> \o tok.s
                /\ (~Present(url) /\ ~Present(tok) /\ Present(su)) => f.link = su.s
                /\ (~Present(url) /\ ~Present(su)) => f.link = <<"No link">>
                /\ ~Present(su) => ~Synthesized(f.link)

\* Reached: a document with a search-level URL returned two flights, one whose
\* offer has its own URL and a token (the URL is the link), one whose offer has
\* only the token (the link is synthesized).
C11_Witness ==
    /\ pc = "returned"
    /\ Present(data.search_url)
    /\ \E j, k \in 1..Len(sorted_flights) :
          /\ Present(sources[sorted_flights[j].src].google_flights_url)
          /\ Present(sources[sorted_flights[j].src].booking_token)
          /\ sorted_flights[j].link = OfferUrl
          /\ ~Present(sources[sorted_flights[k].src].google_flights_url)
          /\ Present(sources[sorted_flights[k].src].booking_token)
          /\ Synthesized(sorted_flights[k].link)

\* ------------------------------------------------------- convert_to_iata
LowerLetters ==
    <<"a", "b", "c", "d", "e", "f", "g", "h", "i", "j", "k", "l", "m",
      "n", "o", "p", "q", "r", "s", "t", "u", "v", "w", "x", "y", "z">>

UpperLetters ==
    <<"A", "B", "C", "D", "E", "F", "G", "H", "I", "J", "K", "L", "M",
      "N", "O", "P", "Q", "R", "S", "T", "U", "V", "W", "X", "Y", "Z">>

\* c.isalpha() on the model's alphabet (ASCII letters, digits, space, ".", "-")
IsAlpha(c) == c \in Range(LowerLetters) \cup Range(UpperLetters)

\* the position of the letter c in the alphabet letters
LetterIndex(c, letters) == CHOOSE k \in 1..Len(letters) : letters[k] = c

\* c.upper(), c.lower()
UpperChar(c) ==
    IF c \in Range(LowerLetters) THEN UpperLetters[LetterIndex(c, LowerLetters)] ELSE c

LowerChar(c) ==
    IF c \in Range(UpperLetters) THEN LowerLetters[LetterIndex(c, UpperLetters)] ELSE c

\* s.upper(), s.lower()
UpperStr(s) == [k \in 1..Len(s) |-> UpperChar(s[k])]
LowerStr(s) == [k \in 1..Len(s) |-> LowerChar(s[k])]

\* s.isalpha(): at least one character, all of them letters
IsAlphaStr(s) == s # <<>> /\ \A k \in 1..Len(s) : IsAlpha(s[k])

\* ''.join([c for c in s if c.isalpha()])
RECURSIVE OnlyLetters(_)
OnlyLetters(s) ==
    IF s = <<>> THEN <<>>
    ELSE IF IsAlpha(Head(s)) THEN <<Head(s)>> \o OnlyLetters(Tail(s))
    ELSE OnlyLetters(Tail(s))

\* the lookup table of lines 31-55: <<city name, code>>
mapping ==
    {
     <<<<"d", "e", "l", "h", "i">>,
       <<"D", "E", "L">>>>,
     <<<<"n", "e", "w", " ", "d", "e", "l", "h", "i">>,
       <<"D", "E", "L">>>>,
     <<<<"m", "u", "m", "b", "a", "i">>,
       <<"B", "O", "M">>>>,
     <<<<"b", "o", "m", "b", "a", "y">>,
       <<"B", "O", "M">>>>,
     <<<<"h", "y", "d", "e", "r", "a", "b", "a", "d">>,
       <<"H", "Y", "D">>>>,
     <<<<"b", "a", "n", "g", "a", "l", "o", "r", "e">>,
       <<"B", "L", "R">>>>,
     <<<<"b", "e", "n", "g", "a", "l", "u", "r", "u">>,
       <<"B", "L", "R">>>>,
     <<<<"l", "u", "c", "k", "n", "o", "w">>,
       <<"L", "K", "O">>>>,
     <<<<"c", "h", "e", "n", "n", "a", "i">>,
       <<"M", "A", "A">>>>,
     <<<<"k", "o", "l", "k", "a", "t", "a">>,
       <<"C", "C", "U">>>>,
     <<<<"p", "u", "n", "e">>,
       <<"P", "N", "Q">>>>,
     <<<<"a", "h", "m", "e", "d", "a", "b", "a", "d">>,
       <<"A", "M", "D">>>>,
     <<<<"g", "o", "a">>,
       <<"G", "O", "I">>>>,
     <<<<"c", "o", "c", "h", "i", "n">>,
       <<"C", "O", "K">>>>,
     <<<<"k", "o", "c", "h", "i">>,
       <<"C", "O", "K">>>>,
     <<<<"j", "a", "i", "p", "u", "r">>,
       <<"J", "A", "I">>>>,
     <<<<"v", "i", "s", "a", "k", "h", "a", "p", "a", "t", "n", "a", "m">>,
       <<"V", "T", "Z">>>>,
     <<<<"v", "i", "s", "h", "a", "k", "h", "a", "p", "a", "t", "n", "a", "m">>,
       <<"V", "T", "Z">>>>,
     <<<<"t", "r", "i", "v", "a", "n", "d", "r", "u", "m">>,
       <<"T", "R", "V">>>>,
     <<<<"k", "a", "n", "p", "u", "r">>,
       <<"K", "N", "U">>>>,
     <<<<"v", "a", "r", "a", "n", "a", "s", "i">>,
       <<"V", "N", "S">>>>,
     <<<<"n", "a", "g", "p", "u", "r">>,
       <<"N", "A", "G">>>>,
     <<<<"p", "a", "t", "n", "a">>,
       <<"P", "A", "T">>>>
    }

\* the table has the key s; mapping.get(s)
HasEntry(s) == \E e \in mapping : e[1] = s
Lookup(s)   == (CHOOSE e \in mapping : e[1] = s)[2]

\* lines 20-66.  val: the value returned (None is NullValue); via: the return
\* statement taken, "empty" (line 25), "code" (line 29), "table" (line 59),
\* "guess" (line 64) or "none" (line 66).
convert_to_iata(text) ==
    IF text = <<>> THEN [val |-> NullValue, via |-> "empty"]
    ELSE LET s     == Strip(text)
             guess == UpperStr(Take(OnlyLetters(s), 3))
         IN  IF Len(s) = 3 /\ IsAlphaStr(s)
             THEN [val |-> StrValue(UpperStr(s)), via |-> "code"]
             ELSE IF HasEntry(LowerStr(s))
             THEN [val |-> StrValue(Lookup(LowerStr(s))), via |-> "table"]
             ELSE IF Len(guess) = 3
             THEN [val |-> StrValue(guess), via |-> "guess"]
             ELSE [val |-> NullValue, via |-> "none"]

\* the first letter in upper case, as a user types a city name
Capitalized(s) == IF s = <<>> THEN s ELSE <<UpperChar(Head(s))>> \o Tail(s)

\* Texts that are no key of the table: "", " ", "DEL", "del", " bom ", "Shimla",
\* "Kanpur Nagar", "ka", "a1b2c", "x-1", "12345", "d3l", "Port Blair", "St. Louis"
OtherTexts ==
    {
     <<>>,
     <<" ">>,
     <<"D", "E", "L">>,
     <<"d", "e", "l">>,
     <<" ", "b", "o", "m", " ">>,
     <<"S", "h", "i", "m", "l", "a">>,
     <<"K", "a", "n", "p", "u", "r", " ", "N", "a", "g", "a", "r">>,
     <<"k", "a">>,
     <<"a", "1", "b", "2", "c">>,
     <<"x", "-", "1">>,
     <<"1", "2", "3", "4", "5">>,
     <<"d", "3", "l">>,
     <<"P", "o", "r", "t", " ", "B", "l", "a", "i", "r">>,
     <<"S", "t", ".", " ", "L", "o", "u", "i", "s">>
    }

\* What the user types: every key of the table as it is, capitalized, in upper
\* case and between spaces, and the other texts.
Texts ==
    UNION {{e[1], Capitalized(e[1]), UpperStr(e[1]), <<" ">> \o e[1] \o <<" ", " ">>} :
              e \in mapping}
    \cup OtherTexts

\* state after the user typed the text, before line 87 / 88 calls the function
IataInit ==
    /\ loc \in Texts
    /\ iata_pc = "called"
    /\ iata = [val |-> NullValue, via |-> ""]
    /\ SearchIdle
    /\ FileIdle
    /\ ChatIdle

\* one call of convert_to_iata
ConvertToIata ==
    /\ iata_pc = "called"
    /\ iata' = convert_to_iata(loc)
    /\ iata_pc' = "returned"
    /\ UNCHANGED loc
    /\ UNCHANGED <<search_vars, file_vars, chat_vars>>

IataNext == ConvertToIata

SpecIata == IataInit /\ [][IataNext]_vars

\* ---------------------------------------------------------------- C12
\* the trimmed text is already a 3-letter alphabetic code
ThreeLetterCode(text) == Len(Strip(text)) = 3 /\ IsAlphaStr(Strip(text))

\* C12: a text that, trimmed and in lower case, is a key of the lookup table
\* resolves to the table's code; and the first-three-letters guess is returned
\* only for a text that has no table entry and is no 3-letter alphabetic code.
C12_TableEntryResolved ==
    iata_pc = "returned" =>
        /\ HasEntry(LowerStr(Strip(loc))) => iata.val = StrValue(Lookup(LowerStr(Strip(loc))))
        /\ iata.via = "guess" => (~HasEntry(LowerStr(Strip(loc))) /\ ~ThreeLetterCode(loc))

\* ------------------------------------------- the temporary file hand-off
\* The payloads of three routes, as fetch_raw_flights returns them.
RoutePayloads ==
    {Payload(TRUE, <<ScA1>>, FALSE, <<>>, <<>>),
     Payload(TRUE, <<ScB>>, TRUE, <<ScA2>>, <<>>),
     Payload(FALSE, <<>>, TRUE, <<ScC>>, <<>>)}

SharedInit ==
    /\ FileIdle
    /\ SearchIdle
    /\ IataIdle
    /\ ChatIdle

\* agent.py 62, streamlit_app.py 98: the search s fetched a payload
Fetch(s) ==
    /\ search_pc[s] = "idle"
    /\ \E d \in RoutePayloads : raw' = [raw EXCEPT ![s] = Doc(d)]
    /\ search_pc' = [search_pc EXCEPT ![s] = "fetched"]
    /\ UNCHANGED <<temp_file, loaded>>
    /\ UNCHANGED <<search_vars, iata_vars, chat_vars>>

\* agent.py 64-65, streamlit_app.py 99-101: nothing fetched, the search ends
FetchNothing(s) ==
    /\ search_pc[s] = "idle"
    /\ search_pc' = [search_pc EXCEPT ![s] = "failed"]
    /\ UNCHANGED <<raw, temp_file, loaded>>
    /\ UNCHANGED <<search_vars, iata_vars, chat_vars>>

\* agent.py 69, streamlit_app.py 113: open("temp_search.json", "w") truncates
OpenTemp(s) ==
    /\ search_pc[s] = "fetched"
    /\ temp_file' = FileTruncated
    /\ search_pc' = [search_pc EXCEPT ![s] = "opened"]
    /\ UNCHANGED <<raw, loaded>>
    /\ UNCHANGED <<search_vars, iata_vars, chat_vars>>

\* agent.py 70, streamlit_app.py 114: json.dump and the close of the file
DumpTemp(s) ==
    /\ search_pc[s] = "opened"
    /\ temp_file' = raw[s]
    /\ search_pc' = [search_pc EXCEPT ![s] = "written"]
    /\ UNCHANGED <<raw, loaded>>
    /\ UNCHANGED <<search_vars, iata_vars, chat_vars>>

\* agent.py 77, streamlit_app.py 116, flight_filter.py 28-30: json.load of
\* whatever the file holds now; a truncated file is a JSONDecodeError, which
\* find_direct_flights does not catch.
LoadTemp(s) ==
    /\ search_pc[s] = "written"
    /\ \/ /\ temp_file.state = "truncated"
          /\ search_pc' = [search_pc EXCEPT ![s] = "failed"]
          /\ UNCHANGED loaded
       \/ /\ temp_file.state = "doc"
          /\ loaded' = [loaded EXCEPT ![s] = temp_file]
          /\ search_pc' = [search_pc EXCEPT ![s] = "ranked"]
    /\ UNCHANGED <<raw, temp_file>>
    /\ UNCHANGED <<search_vars, iata_vars, chat_vars>>

\* the next press of Search, the next call of the tool
NewSearch(s) ==
    /\ search_pc[s] \in {"ranked", "failed"}
    /\ search_pc' = [search_pc EXCEPT ![s] = "idle"]
    /\ raw' = [raw EXCEPT ![s] = NoDoc]
    /\ loaded' = [loaded EXCEPT ![s] = NoDoc]
    /\ UNCHANGED temp_file
    /\ UNCHANGED <<search_vars, iata_vars, chat_vars>>

SharedNext ==
    \/ \E s \in Searches : Fetch(s)
    \/ \E s \in Searches : FetchNothing(s)
    \/ \E s \in Searches : OpenTemp(s)
    \/ \E s \in Searches : DumpTemp(s)
    \/ \E s \in Searches : LoadTemp(s)
    \/ \E s \in Searches : NewSearch(s)

SpecShared == SharedInit /\ [][SharedNext]_vars

\* ---------------------------------------------------------------- C13
\* C13: the document a search parses and ranks is the payload that same search
\* fetched, however the steps of the two searches interleave.
C13_RanksOwnPayload ==
    \A s \in Searches : search_pc[s] = "ranked" => loaded[s] = raw[s]

\* ---------------------------------------------------------- chat_with_agent
\* What an invocation of the model does: it returns a message without tool
\* calls ("chat") or with tool calls ("tool"), or it raises: a quota error whose
\* text names a retry delay ("quota_delay"), one that names none ("quota"), any
\* other error ("error").
Replies  == {"chat", "tool"}
Failures == {"quota_delay", "quota", "error"}

ChatInit ==
    /\ chat_pc = "input"
    /\ ChatStart
    /\ SearchIdle
    /\ IataIdle
    /\ FileIdle

chat_frame == <<search_vars, iata_vars, file_vars>>

\* lines 160-166: the user typed a request; a new turn begins
UserInput ==
    /\ chat_pc = "input"
    /\ chat_pc' = "think"
    /\ printed' = <<>>
    /\ model_ok' = FALSE
    /\ final_ok' = FALSE
    /\ tool_calls' = FALSE
    /\ s_err' = ""
    /\ UNCHANGED <<current_model, llm_with_tools, fb_i>>
    /\ UNCHANGED chat_frame

\* lines 161-162: quit / exit
Quit ==
    /\ chat_pc = "input"
    /\ chat_pc' = "quit"
    /\ UNCHANGED <<current_model, llm_with_tools, fb_i, s_err, tool_calls, printed,
                   model_ok, final_ok>>
    /\ UNCHANGED chat_frame

\* lines 223-226 and 266-268 after a model call returned ai_msg: with tool calls
\* the tools run next; without, the if of line 226 has no else branch (the else
\* of line 266 belongs to the try of line 236), so nothing is printed and the
\* loop asks for the next input.
GotAiMsg(reply) ==
    /\ model_ok' = TRUE
    /\ tool_calls' = (reply = "tool")
    /\ chat_pc' = IF reply = "tool" THEN "tools" ELSE "input"
    /\ UNCHANGED <<printed, final_ok>>

\* lines 168-221: the first invocation of the turn
Think ==
    /\ chat_pc = "think"
    /\ \/ \E reply \in Replies :
            /\ GotAiMsg(reply)
            /\ UNCHANGED <<s_err, fb_i>>
       \/ \E failure \in {"quota_delay", "quota"} :
            /\ s_err' = failure
            /\ fb_i' = 1
            /\ chat_pc' = "fallback"
            /\ UNCHANGED <<tool_calls, printed, model_ok, final_ok>>
       \/ /\ s_err' = "error"
          /\ chat_pc' = "input"
          /\ UNCHANGED <<fb_i, tool_calls, printed, model_ok, final_ok>>
    /\ UNCHANGED <<current_model, llm_with_tools>>
    /\ UNCHANGED chat_frame

\* lines 177-179: the fallback is the current model, it is passed over
SkipFallback ==
    /\ chat_pc = "fallback"
    /\ fb_i <= Len(FALLBACK_MODELS)
    /\ FALLBACK_MODELS[fb_i] = current_model
    /\ fb_i' = fb_i + 1
    /\ UNCHANGED <<chat_pc, current_model, llm_with_tools, s_err, tool_calls, printed,
                   model_ok, final_ok>>
    /\ UNCHANGED chat_frame

\* lines 180-193: llm_with_tools is bound to the fallback, then invoked;
\* current_model follows only when the invocation returns
TryFallback ==
    /\ chat_pc = "fallback"
    /\ fb_i <= Len(FALLBACK_MODELS)
    /\ FALLBACK_MODELS[fb_i] # current_model
    /\ llm_with_tools' = FALLBACK_MODELS[fb_i]
    /\ \/ \E reply \in Replies :
            /\ current_model' = FALLBACK_MODELS[fb_i]
            /\ GotAiMsg(reply)
            /\ UNCHANGED fb_i
       \/ /\ fb_i' = fb_i + 1
          /\ UNCHANGED <<chat_pc, current_model, tool_calls, printed, model_ok, final_ok>>
    /\ UNCHANGED s_err
    /\ UNCHANGED chat_frame

\* lines 195-216: no fallback succeeded; with a retry delay in the first error
\* the loop waits and retries once, without it the turn ends
FallbacksExhausted ==
    /\ chat_pc = "fallback"
    /\ fb_i > Len(FALLBACK_MODELS)
    /\ chat_pc' = IF s_err = "quota_delay" THEN "retry" ELSE "input"
    /\ UNCHANGED <<current_model, llm_with_tools, fb_i, s_err, tool_calls, printed,
                   model_ok, final_ok>>
    /\ UNCHANGED chat_frame

\* lines 206-213: the retry invokes whatever llm_with_tools is bound to
RetryThink ==
    /\ chat_pc = "retry"
    /\ \/ \E reply \in Replies : GotAiMsg(reply)
       \/ /\ chat_pc' = "input"
          /\ UNCHANGED <<tool_calls, printed, model_ok, final_ok>>
    /\ UNCHANGED <<current_model, llm_with_tools, fb_i, s_err>>
    /\ UNCHANGED chat_frame

\* lines 227-233: the tools run; an exception of search_flights_tool (one that
\* find_direct_flights raises) is caught nowhere and ends the program
RunTools ==
    /\ chat_pc = "tools"
    /\ chat_pc' \in {"final", "crashed"}
    /\ UNCHANGED <<current_model, llm_with_tools, fb_i, s_err, tool_calls, printed,
                   model_ok, final_ok>>
    /\ UNCHANGED chat_frame

\* lines 236-268: the invocation after the tool results.  When it returns, line
\* 238 prints final_response and the else clause of the try (lines 266-268)
\* prints ai_msg.
FinalResponse ==
    /\ chat_pc = "final"
    /\ \/ /\ printed' = printed \o <<"final_response", "ai_msg">>
          /\ final_ok' = TRUE
          /\ chat_pc' = "input"
       \/ /\ chat_pc' = "final_retry"
          /\ UNCHANGED <<printed, final_ok>>
       \/ /\ chat_pc' = "input"
          /\ UNCHANGED <<printed, final_ok>>
    /\ UNCHANGED <<current_model, llm_with_tools, fb_i, s_err, tool_calls, model_ok>>
    /\ UNCHANGED chat_frame

\* lines 250-258: the retry of the invocation after the tool results
FinalRetry ==
    /\ chat_pc = "final_retry"
    /\ \/ /\ printed' = printed \o <<"final_response">>
          /\ final_ok' = TRUE
       \/ UNCHANGED <<printed, final_ok>>
    /\ chat_pc' = "input"
    /\ UNCHANGED <<current_model, llm_with_tools, fb_i, s_err, tool_calls, model_ok>>
    /\ UNCHANGED chat_frame

ChatNext ==
    \/ UserInput
    \/ Quit
    \/ Think
    \/ SkipFallback
    \/ TryFallback
    \/ FallbacksExhausted
    \/ RetryThink
    \/ RunTools
    \/ FinalResponse
    \/ FinalRetry

SpecChat == ChatInit /\ [][ChatNext]_vars

\* ---------------------------------------------------------------- C14
\* the turn is over: the loop is back at the prompt, or the user has quit
TurnOver == chat_pc \in {"input", "quit"}

\* C14: after every turn whose model call succeeded (and, when the model asked
\* for a tool, whose final response was generated), exactly one reply has been
\* printed: the model's own reply when it asked for no tool, the final response
\* when it asked for one.
C14_ExactlyOneReply ==
    (TurnOver /\ model_ok /\ (tool_calls => final_ok)) =>
        printed = IF tool_calls THEN <<"final_response">> ELSE <<"ai_msg">>

\* ---------------------------------------------------------------- C15
\* the loop is about to invoke llm_with_tools outside the fallback loop, or is
\* between two turns
AtInvocation == chat_pc \in {"input", "think", "retry", "final", "final_retry"}

\* C15: between turns and before every invocation (the first of a turn, the
\* wait-then-retry one, the ones after the tool results), current_model names
\* the model llm_with_tools is bound to.
C15_CurrentModelIsBound ==
    AtInvocation => current_model = llm_with_tools

====
